---- MODULE Spec2Model ----
(***************************************************************************)
(* Model of the ClickHouse expression formatter                            *)
(* (snuba/clickhouse/formatter/expression.py) and of the stream            *)
(* OffsetTracker (snuba/utils/streams/parallel.py).                        *)
(*                                                                         *)
(* Text is a sequence of one-character strings, so that escaping, joining  *)
(* and wrapping are computed character by character.  None is a value   *)
(* apart from every text, the empty one included; "not alias" and          *)
(* "if exp.table_name" hold of both (Falsy), a comparison tells them apart.*)
(***************************************************************************)
EXTENDS Integers, Sequences, FiniteSets, TLC

VARIABLES
    exprs,      \* the top-level expressions handed to the formatters so far
    ctxC,       \* ParsingContext of the ClickhouseExpressionFormatter
    outC,       \* fragments the canonical formatter returned, in call order
    logC,       \* every visit_* return of the canonical pass, in return order
    ctxA,       \* ParsingContext of the ClickHouseExpressionFormatterAnonymized
    outA,       \* fragments the anonymized formatter returned, in call order
    logA,       \* every visit_* return of the anonymized pass
    failed,     \* the passes whose last accept raised ValueError
    cond,       \* SpecCond: the boolean condition under test
    condOut,    \* SpecCond: <<>> before the render, <<text>> after it
    pair,       \* SpecAnon: two expressions differing in one literal value
    pairOut,    \* SpecAnon: <<>> or the two anonymized results
    epoch,      \* OffsetTracker.__epoch
    completed,  \* OffsetTracker.__completed: a sequence over {"None","False","True"}
    added,      \* offsets whose add returned normally (history)
    removed,    \* offsets whose remove returned normally (history)
    lastCall,   \* the last tracker call and how it ended
    iterator,   \* the generator of __iter__: <<>> or where its loop stands
    lit,        \* SpecString: the expression holding the string literal
    litOut,     \* SpecString: <<>> before the render, <<result>> after it
    sharing,    \* SpecShared: TRUE when the two passes use one ParsingContext
    passCtx,    \* SpecShared: the ParsingContext each pass formats with
    passOut,    \* SpecShared: the fragments each pass got back, in call order
    passLog,    \* SpecShared: every visit_* return of each pass
    event,      \* SpecWriter: the processed event, as ordered <<key, value>> pairs
    columns,    \* SpecWriter: the requested column names
    row         \* SpecWriter: <<>> before the call, <<outcome>> after it

fmtVars == <<exprs, ctxC, outC, logC, ctxA, outA, logA, failed>>
condVars == <<cond, condOut>>
pairVars == <<pair, pairOut>>
trackerVars == <<epoch, completed, added, removed, lastCall, iterator>>
strVars == <<lit, litOut>>
sharedVars == <<sharing, passCtx, passOut, passLog>>
writerVars == <<event, columns, row>>
vars == <<fmtVars, condVars, pairVars, trackerVars, strVars, sharedVars, writerVars>>

-----------------------------------------------------------------------------
(* Characters and fixed pieces of text *)

Lower == {"a", "b", "c", "d", "e", "f", "g", "h", "i", "j", "k", "l", "m",
          "n", "o", "p", "q", "r", "s", "t", "u", "v", "w", "x", "y", "z"}
Upper == {"A", "B", "C", "D", "E", "F", "G", "H", "I", "J", "K", "L", "M",
          "N", "O", "P", "Q", "R", "S", "T", "U", "V", "W", "X", "Y", "Z"}
Digits == {"0", "1", "2", "3", "4", "5", "6", "7", "8", "9"}
DigitChar == <<"0", "1", "2", "3", "4", "5", "6", "7", "8", "9">>

\* None: a sequence no text is equal to, since no character is "None"
None == <<"None">>

\* not x, for x None or a string
Falsy(x) == x = None \/ x = <<>>

\* The single quote, the backslash and the identifier quote character.  The
\* quote character of the dialect (the grave accent) cannot be written in a
\* TLA+ string, so the one-character token BACKTICK stands for it.
SQ == "'"
BSL == "\\"
BQ == "BACKTICK"

RECURSIVE Join(_, _)
\* sep.join(parts)
Join(sep, parts) ==
    IF parts = <<>> THEN <<>>
    ELSE IF Len(parts) = 1 THEN parts[1]
    ELSE parts[1] \o sep \o Join(sep, Tail(parts))

RECURSIVE Concat(_)
\* "".join(parts)
Concat(parts) == IF parts = <<>> THEN <<>> ELSE parts[1] \o Concat(Tail(parts))

\* TRUE iff part occurs in text as a contiguous run of characters
Occurs(part, text) ==
    \E i \in 1..(Len(text) - Len(part) + 1) :
        SubSeq(text, i, i + Len(part) - 1) = part

AS == <<" ", "A", "S", " ">>
AND_SEP == <<" ", "A", "N", "D", " ">>
OR_SEP == <<" ", "O", "R", " ">>
COMMA == <<",", " ">>
NULL == <<"N", "U", "L", "L">>
UNIVERSAL == <<SQ, ",", " ", SQ, "U", "n", "i", "v", "e", "r", "s", "a", "l", SQ, ")">>
TO_DATETIME == <<"t", "o", "D", "a", "t", "e", "T", "i", "m", "e", "(", SQ>>
TO_DATE == <<"t", "o", "D", "a", "t", "e", "(", SQ>>

\* BooleanFunctions.AND / BooleanFunctions.OR / the array constructor name
BooleanAND == <<"a", "n", "d">>
BooleanOR == <<"o", "r">>
ArrayName == <<"a", "r", "r", "a", "y">>

-----------------------------------------------------------------------------
(* snuba.clickhouse.escaping and snuba.query.parsing are not among the     *)
(* sources; they are modelled from the specification (section 4.1, 3).     *)

ReservedWords == {<<"f", "r", "o", "m">>}

NeedsQuoting(name) ==
    \/ \E i \in 1..Len(name) : name[i] \notin (Lower \cup Upper \cup Digits \cup {"_"})
    \/ (name # <<>> /\ name[1] \in Digits)
    \/ name \in ReservedWords

RECURSIVE DoubleQuoteChar(_)
DoubleQuoteChar(name) ==
    IF name = <<>> THEN <<>>
    ELSE (IF name[1] = BQ THEN <<BQ, BQ>> ELSE <<name[1]>>)
         \o DoubleQuoteChar(Tail(name))

escape_identifier(name) ==
    IF NeedsQuoting(name) THEN <<BQ>> \o DoubleQuoteChar(name) \o <<BQ>> ELSE name

escape_alias(name) ==
    IF NeedsQuoting(name) THEN <<BQ>> \o DoubleQuoteChar(name) \o <<BQ>> ELSE name

RECURSIVE EscapeChars(_)
EscapeChars(value) ==
    IF value = <<>> THEN <<>>
    ELSE (IF value[1] \in {SQ, BSL} THEN <<BSL, value[1]>> ELSE <<value[1]>>)
         \o EscapeChars(Tail(value))

escape_string(value) == <<SQ>> \o EscapeChars(value) \o <<SQ>>

is_alias_present(ctx, alias) == alias \in ctx

add_alias(ctx, alias) == ctx \cup {alias}

RECURSIVE get_first_level_conditions(_, _)
\* The condition flattener (section 4.2): descend while the child is the
\* same binary operator, left side before right side.
get_first_level_conditions(e, function) ==
    IF e.kind = "FunctionCall" /\ e.function_name = function /\ Len(e.parameters) = 2
    THEN get_first_level_conditions(e.parameters[1], function)
         \o get_first_level_conditions(e.parameters[2], function)
    ELSE <<e>>

get_first_level_and_conditions(e) == get_first_level_conditions(e, BooleanAND)

get_first_level_or_conditions(e) == get_first_level_conditions(e, BooleanOR)

-----------------------------------------------------------------------------
(* The expression nodes (snuba.query.expressions, section 3) *)

Literal(alias, value) == [kind |-> "Literal", alias |-> alias, value |-> value]
Column(alias, table_name, column_name) ==
    [kind |-> "Column", alias |-> alias, table_name |-> table_name,
     column_name |-> column_name]
SubscriptableReference(alias, column, key) ==
    [kind |-> "SubscriptableReference", alias |-> alias, column |-> column, key |-> key]
FunctionCall(alias, function_name, parameters) ==
    [kind |-> "FunctionCall", alias |-> alias, function_name |-> function_name,
     parameters |-> parameters]
CurriedFunctionCall(alias, internal_function, parameters) ==
    [kind |-> "CurriedFunctionCall", alias |-> alias,
     internal_function |-> internal_function, parameters |-> parameters]
Lambda(alias, parameters, transformation) ==
    [kind |-> "Lambda", alias |-> alias, parameters |-> parameters,
     transformation |-> transformation]
Argument(name) == [kind |-> "Argument", alias |-> None, name |-> name]

\* Literal values, tagged with the isinstance branch that visit_literal takes
NullV == [t |-> "null"]
BoolV(b) == [t |-> "bool", v |-> b]
StrV(s) == [t |-> "str", v |-> s]
NumV(n) == [t |-> "num", v |-> n]
DateTimeV(y, mo, d, h, mi, s, us, tz) ==
    [t |-> "datetime", y |-> y, mo |-> mo, d |-> d, h |-> h, mi |-> mi, s |-> s,
     us |-> us, tz |-> tz]
DateV(y, mo, d) == [t |-> "date", y |-> y, mo |-> mo, d |-> d]
OtherV == [t |-> "other"]

-----------------------------------------------------------------------------
(* Plain textual forms of values *)

RECURSIVE NatToStr(_)
NatToStr(n) ==
    IF n < 10 THEN <<DigitChar[n + 1]>>
    ELSE NatToStr(n \div 10) \o <<DigitChar[(n % 10) + 1]>>

\* str(int)
IntToStr(n) == IF n < 0 THEN <<"-">> \o NatToStr(0 - n) ELSE NatToStr(n)

RECURSIVE Pad(_, _)
\* the decimal form of n, zero-padded on the left to width characters
Pad(n, width) ==
    LET s == NatToStr(n)
    IN IF Len(s) >= width THEN s ELSE <<"0">> \o Pad(n, width - 1)

\* date.isoformat()
DateIso(v) == Pad(v.y, 4) \o <<"-">> \o Pad(v.mo, 2) \o <<"-">> \o Pad(v.d, 2)

\* datetime.replace(tzinfo=None, microsecond=0).isoformat()
DateTimeIso(v) ==
    DateIso(v) \o <<"T">> \o Pad(v.h, 2) \o <<":">> \o Pad(v.mi, 2)
               \o <<":">> \o Pad(v.s, 2)

-----------------------------------------------------------------------------
(* ClickhouseExpressionFormatterBase.  A visit takes the formatter class   *)
(* fmt, the node and st = [ctx, log, call] and returns                     *)
(* [ok, text, ctx, log]: ok is FALSE when the visit raised, text is the    *)
(* returned string, ctx the ParsingContext after the visit.  log records   *)
(* every visit that returned: the node, the text it returned, the branch   *)
(* of _alias it went through ("none", "ref", "bind"), or "skip" when it    *)
(* returned without calling _alias, the top-level call it belongs to, and  *)
(* the ParsingContext before its alias handling and when it returned.      *)

\* The result of _alias: the returned text, the context after the call and
\* the branch taken.
AliasNone(formatted_exp, ctx) ==
    [text |-> formatted_exp, ctx |-> ctx, via |-> "none", inner |-> formatted_exp]

\* The back-reference returned as the raw alias
AliasRefUnescaped(formatted_exp, alias, ctx) ==
    [text |-> alias, ctx |-> ctx, via |-> "ref", inner |-> formatted_exp]

AliasRef(formatted_exp, alias, ctx) ==
    [text |-> escape_alias(alias), ctx |-> ctx, via |-> "ref",
     inner |-> formatted_exp]

\* AliasBind without add_alias
AliasBindUnregistered(formatted_exp, alias, ctx) ==
    [text |-> <<"(">> \o formatted_exp \o AS \o escape_alias(alias) \o <<")">>,
     ctx |-> ctx, via |-> "bind", inner |-> formatted_exp]

AliasBind(formatted_exp, alias, ctx) ==
    [text |-> <<"(">> \o formatted_exp \o AS \o escape_alias(alias) \o <<")">>,
     ctx |-> add_alias(ctx, alias), via |-> "bind", inner |-> formatted_exp]

_alias(formatted_exp, alias, ctx) ==
    IF Falsy(alias) THEN AliasNone(formatted_exp, ctx)
    ELSE IF is_alias_present(ctx, alias) THEN AliasRef(formatted_exp, alias, ctx)
    ELSE AliasBind(formatted_exp, alias, ctx)

\* A return without _alias
NoAlias(text, ctx) == [text |-> text, ctx |-> ctx, via |-> "skip", inner |-> text]

Returned(exp, b, st) ==
    [ok |-> TRUE, text |-> b.text, ctx |-> b.ctx,
     log |-> Append(st.log, [node |-> exp, text |-> b.text, via |-> b.via,
                             call |-> st.call, before |-> st.ctx,
                             after |-> b.ctx, inner |-> b.inner])]

\* The ValueError caught and an empty fragment returned in its place
RaisedSwallowed(st) == [ok |-> TRUE, text |-> <<>>, ctx |-> st.ctx, log |-> st.log]

Raised(st) == [ok |-> FALSE, text |-> <<>>, ctx |-> st.ctx, log |-> st.log]

After(r, st) == [ctx |-> r.ctx, log |-> r.log, call |-> st.call]

\* ClickhouseExpressionFormatter: the literal hooks
\* the string hook quoting the value without escape_string
StringLiteralUnescaped(exp, ctx) ==
    _alias(<<SQ>> \o exp.value.v \o <<SQ>>, exp.alias, ctx)

Canonical_format_string_literal(exp, ctx) ==
    _alias(escape_string(exp.value.v), exp.alias, ctx)

\* the number hook returning its text without _alias
NumberLiteralUnaliased(exp, ctx) == NoAlias(IntToStr(exp.value.v), ctx)

Canonical_format_number_literal(exp, ctx) ==
    _alias(IntToStr(exp.value.v), exp.alias, ctx)

Canonical_format_boolean_literal(exp, ctx) ==
    IF exp.value.v = TRUE
    THEN _alias(<<"t", "r", "u", "e">>, exp.alias, ctx)
    ELSE _alias(<<"f", "a", "l", "s", "e">>, exp.alias, ctx)

Canonical_format_datetime_literal(exp, ctx) ==
    _alias(TO_DATETIME \o DateTimeIso(exp.value) \o UNIVERSAL, exp.alias, ctx)

Canonical_format_date_literal(exp, ctx) ==
    _alias(TO_DATE \o DateIso(exp.value) \o UNIVERSAL, exp.alias, ctx)

\* ClickHouseExpressionFormatterAnonymized: the literal hooks
\* the anonymized string hook returning the escaped value
AnonymizedStringLeak(exp, ctx) == NoAlias(escape_string(exp.value.v), ctx)

Anonymized_format_string_literal(exp, ctx) == NoAlias(<<"$", "S">>, ctx)

Anonymized_format_number_literal(exp, ctx) == NoAlias(<<"$", "N">>, ctx)

Anonymized_format_boolean_literal(exp, ctx) == NoAlias(<<"$", "B">>, ctx)

Anonymized_format_datetime_literal(exp, ctx) == NoAlias(<<"$", "D", "T">>, ctx)

Anonymized_format_date_literal(exp, ctx) == NoAlias(<<"$", "D">>, ctx)

\* Dispatch of the abstract hooks on the formatter class
_format_string_literal(fmt, exp, ctx) ==
    IF fmt = "canonical" THEN Canonical_format_string_literal(exp, ctx)
    ELSE Anonymized_format_string_literal(exp, ctx)

_format_number_literal(fmt, exp, ctx) ==
    IF fmt = "canonical" THEN Canonical_format_number_literal(exp, ctx)
    ELSE Anonymized_format_number_literal(exp, ctx)

_format_boolean_literal(fmt, exp, ctx) ==
    IF fmt = "canonical" THEN Canonical_format_boolean_literal(exp, ctx)
    ELSE Anonymized_format_boolean_literal(exp, ctx)

_format_datetime_literal(fmt, exp, ctx) ==
    IF fmt = "canonical" THEN Canonical_format_datetime_literal(exp, ctx)
    ELSE Anonymized_format_datetime_literal(exp, ctx)

_format_date_literal(fmt, exp, ctx) ==
    IF fmt = "canonical" THEN Canonical_format_date_literal(exp, ctx)
    ELSE Anonymized_format_date_literal(exp, ctx)

\* the null branch returning NULL without _alias
NullLiteralUnaliased(exp, ctx) == NoAlias(NULL, ctx)

NullLiteral(exp, ctx) == _alias(NULL, exp.alias, ctx)

visit_literal(fmt, exp, st) ==
    IF exp.value.t = "null" THEN Returned(exp, NullLiteral(exp, st.ctx), st)
    ELSE IF exp.value.t = "bool"
    THEN Returned(exp, _format_boolean_literal(fmt, exp, st.ctx), st)
    ELSE IF exp.value.t = "str"
    THEN Returned(exp, _format_string_literal(fmt, exp, st.ctx), st)
    ELSE IF exp.value.t = "num"
    THEN Returned(exp, _format_number_literal(fmt, exp, st.ctx), st)
    ELSE IF exp.value.t = "datetime"
    THEN Returned(exp, _format_datetime_literal(fmt, exp, st.ctx), st)
    ELSE IF exp.value.t = "date"
    THEN Returned(exp, _format_date_literal(fmt, exp, st.ctx), st)
    ELSE Raised(st)

\* "".join(ret) and "".join(ret_unescaped) of visit_column
ColumnRet(exp) ==
    IF ~Falsy(exp.table_name)
    THEN escape_identifier(exp.table_name) \o <<".">> \o escape_alias(exp.column_name)
    ELSE escape_identifier(exp.column_name)

ColumnRetUnescaped(exp) ==
    IF ~Falsy(exp.table_name)
    THEN exp.table_name \o <<".">> \o exp.column_name
    ELSE exp.column_name

\* visit_column without the comparison of the alias with the column name
ColumnAliasAlways(exp, ctx) == _alias(ColumnRet(exp), exp.alias, ctx)

\* An alias of None differs from every name, the empty one included; the
\* empty alias is equal to the empty name
ColumnAlias(exp, ctx) ==
    IF exp.alias # ColumnRetUnescaped(exp)
    THEN _alias(ColumnRet(exp), exp.alias, ctx)
    ELSE NoAlias(ColumnRet(exp), ctx)

visit_column(fmt, exp, st) == Returned(exp, ColumnAlias(exp, st.ctx), st)

visit_argument(fmt, exp, st) ==
    Returned(exp, NoAlias(escape_identifier(exp.name), st.ctx), st)

\* [escape_identifier(v) for v in parameters]
EscapeAll(names) == [i \in 1..Len(names) |-> escape_identifier(names[i])]

\* The text and alias handling of each FunctionCall branch, given the
\* rendered parameters (or flattened operands)
\* the array branch returning without _alias
ArrayTextUnaliased(exp, params, ctx) ==
    NoAlias(<<"[">> \o Join(COMMA, params) \o <<"]">>, ctx)

ArrayText(exp, params, ctx) ==
    _alias(<<"[">> \o Join(COMMA, params) \o <<"]">>, exp.alias, ctx)

\* the AND branch wrapping its result in parentheses, as the OR branch does
AndTextWrapped(exp, operands, ctx) ==
    NoAlias(<<"(">> \o Join(AND_SEP, operands) \o <<")">>, ctx)

AndText(exp, operands, ctx) == NoAlias(Join(AND_SEP, operands), ctx)

\* the OR branch without its parentheses
OrTextBare(exp, operands, ctx) == NoAlias(Join(OR_SEP, operands), ctx)

OrText(exp, operands, ctx) ==
    NoAlias(<<"(">> \o Join(OR_SEP, operands) \o <<")">>, ctx)

CallText(exp, params, ctx) ==
    _alias(escape_identifier(exp.function_name) \o <<"(">> \o Join(COMMA, params)
           \o <<")">>, exp.alias, ctx)

CurriedText(exp, int_func, params, ctx) ==
    _alias(int_func \o <<"(">> \o Join(COMMA, params) \o <<")">>, exp.alias, ctx)

LambdaText(exp, body, ctx) ==
    _alias(<<"(">> \o Join(COMMA, EscapeAll(exp.parameters))
           \o <<" ", "-", ">", " ">> \o body \o <<")">>, exp.alias, ctx)

RECURSIVE accept(_, _, _), AcceptAll(_, _, _)

\* [p.accept(self) for p in parameters]: left to right, stopping at the
\* first visit that raises.  texts are the returned strings.
AcceptAll(fmt, es, st) ==
    IF es = <<>>
    THEN [ok |-> TRUE, texts |-> <<>>, ctx |-> st.ctx, log |-> st.log]
    ELSE LET r == accept(fmt, es[1], st)
         IN IF ~r.ok
            THEN [ok |-> FALSE, texts |-> <<>>, ctx |-> r.ctx, log |-> r.log]
            ELSE LET rest == AcceptAll(fmt, Tail(es), After(r, st))
                 IN [ok |-> rest.ok, texts |-> <<r.text>> \o rest.texts,
                     ctx |-> rest.ctx, log |-> rest.log]

visit_subscriptable_reference(fmt, exp, st) ==
    LET c == visit_column(fmt, exp.column, st)
        k == visit_literal(fmt, exp.key, After(c, st))
    IN IF ~k.ok THEN Raised(After(k, st))
       ELSE Returned(exp, NoAlias(c.text \o <<"[">> \o k.text \o <<"]">>, k.ctx),
                     After(k, st))

visit_function_call(fmt, exp, st) ==
    IF exp.function_name = ArrayName
    THEN LET p == AcceptAll(fmt, exp.parameters, st)
         IN IF ~p.ok THEN Raised(After(p, st))
            ELSE Returned(exp, ArrayText(exp, p.texts, p.ctx), After(p, st))
    ELSE IF exp.function_name = BooleanAND
    THEN LET p == AcceptAll(fmt, get_first_level_and_conditions(exp), st)
         IN IF ~p.ok THEN Raised(After(p, st))
            ELSE Returned(exp, AndText(exp, p.texts, p.ctx), After(p, st))
    ELSE IF exp.function_name = BooleanOR
    THEN LET p == AcceptAll(fmt, get_first_level_or_conditions(exp), st)
         IN IF ~p.ok THEN Raised(After(p, st))
            ELSE Returned(exp, OrText(exp, p.texts, p.ctx), After(p, st))
    ELSE LET p == AcceptAll(fmt, exp.parameters, st)
         IN IF ~p.ok THEN Raised(After(p, st))
            ELSE Returned(exp, CallText(exp, p.texts, p.ctx), After(p, st))

visit_curried_function_call(fmt, exp, st) ==
    LET f == accept(fmt, exp.internal_function, st)
    IN IF ~f.ok THEN Raised(After(f, st))
       ELSE LET p == AcceptAll(fmt, exp.parameters, After(f, st))
            IN IF ~p.ok THEN Raised(After(p, st))
               ELSE Returned(exp, CurriedText(exp, f.text, p.texts, p.ctx),
                             After(p, st))

visit_lambda(fmt, exp, st) ==
    LET b == accept(fmt, exp.transformation, st)
    IN IF ~b.ok THEN Raised(After(b, st))
       ELSE Returned(exp, LambdaText(exp, b.text, b.ctx), After(b, st))

\* Expression.accept(visitor): dispatch on the node variant
accept(fmt, exp, st) ==
    CASE exp.kind = "Literal" -> visit_literal(fmt, exp, st)
      [] exp.kind = "Column" -> visit_column(fmt, exp, st)
      [] exp.kind = "SubscriptableReference" -> visit_subscriptable_reference(fmt, exp, st)
      [] exp.kind = "FunctionCall" -> visit_function_call(fmt, exp, st)
      [] exp.kind = "CurriedFunctionCall" -> visit_curried_function_call(fmt, exp, st)
      [] exp.kind = "Lambda" -> visit_lambda(fmt, exp, st)
      [] exp.kind = "Argument" -> visit_argument(fmt, exp, st)

-----------------------------------------------------------------------------
(* The expressions of a formatting pass *)

MaxCalls == 2

NameC == <<"c">>
NameT == <<"t">>
NameF == <<"f">>
NameX == <<"x">>
NameQ == <<"c", "-">>
AliasTC == <<"t", ".", "c">>

Aliases == {None, NameC, AliasTC}

DateTime1 == DateTimeV(2021, 5, 1, 12, 30, 45, 987000, 120)
DateTime2 == DateTimeV(1999, 12, 31, 23, 59, 7, 0, 0)
Date1 == DateV(2021, 5, 1)
Date2 == DateV(1999, 12, 31)

\* One value of every kind visit_literal tells apart, and one it rejects
LiteralValues ==
    {NullV, BoolV(TRUE), StrV(<<"x", SQ>>), NumV(-7), DateTime1, Date1, OtherV}

Columns == {Column(al, tb, NameC) : al \in Aliases, tb \in {None, NameT}}

\* A column whose name has to be quoted, without alias and self-aliased
QuotedColumns == {Column(al, None, NameQ) : al \in {None, NameQ}}

Literals == {Literal(al, v) : al \in {None, AliasTC}, v \in LiteralValues}

PlainColumn == Column(None, None, NameC)
AliasedColumn == Column(AliasTC, None, NameC)
AliasedNumber == Literal(AliasTC, NumV(1))
AliasedBoolean == Literal(AliasTC, BoolV(FALSE))

Calls ==
    {FunctionCall(al, fn, ps) :
        al \in {None, AliasTC}, fn \in {NameF, ArrayName},
        ps \in {<<PlainColumn>>, <<AliasedColumn>>,
                 <<AliasedNumber, Column(AliasTC, NameT, NameC)>>}}

Conditions ==
    {FunctionCall(al, fn, ps) :
        al \in {None, AliasTC}, fn \in {BooleanAND, BooleanOR},
        ps \in {<<PlainColumn, AliasedBoolean>>,
                 <<PlainColumn, Column(NameC, NameT, NameC)>>}}

CurriedCalls ==
    {CurriedFunctionCall(al, FunctionCall(al2, NameF, <<PlainColumn>>),
                         <<Literal(None, NumV(1))>>) :
        al \in {None, AliasTC}, al2 \in {None, AliasTC}}

Lambdas ==
    {Lambda(al, <<NameX, NameT>>, body) :
        al \in {None, AliasTC}, body \in {Argument(NameX), AliasedColumn}}

Subscripts ==
    {SubscriptableReference(al, AliasedColumn, Literal(None, v)) :
        al \in {None, AliasTC}, v \in {StrV(<<"k">>), OtherV}}

\* A literal of no recognised kind below every kind of parent, after a
\* sibling that binds an alias
Unrecognised == Literal(None, OtherV)

Rejected ==
    {FunctionCall(AliasTC, NameF, <<AliasedColumn, Unrecognised>>),
     FunctionCall(None, BooleanAND, <<AliasedBoolean, Unrecognised>>),
     FunctionCall(None, ArrayName,
                  <<FunctionCall(None, NameF, <<Literal(AliasTC, OtherV)>>)>>),
     CurriedFunctionCall(None, FunctionCall(None, NameF, <<AliasedColumn>>),
                         <<Unrecognised>>),
     Lambda(None, <<NameX>>, Unrecognised)}

Exprs ==
    Columns \cup QuotedColumns \cup Literals \cup {Argument(NameX)} \cup Calls
    \cup Conditions
    \cup CurriedCalls \cup Lambdas \cup Subscripts \cup Rejected

-----------------------------------------------------------------------------
(* The formatting pass: one query is formatted twice, by a canonical and   *)
(* by an anonymized formatter, each constructed with its own fresh         *)
(* ParsingContext; every top-level expression is handed to both.           *)

FmtInit ==
    /\ exprs = <<>>
    /\ ctxC = {} /\ outC = <<>> /\ logC = <<>>
    /\ ctxA = {} /\ outA = <<>> /\ logA = <<>>
    /\ failed = {}

CondIdle == cond = <<>> /\ condOut = <<>>
PairIdle == pair = <<>> /\ pairOut = <<>>
TrackerIdle ==
    /\ epoch = 0 /\ completed = <<>> /\ added = {} /\ removed = {}
    /\ lastCall = <<>> /\ iterator = <<>>

StrIdle == lit = <<>> /\ litOut = <<>>
SharedIdle ==
    /\ sharing = FALSE /\ passCtx = <<>> /\ passOut = <<>> /\ passLog = <<>>
WriterIdle == event = <<>> /\ columns = <<>> /\ row = <<>>

Init == FmtInit /\ CondIdle /\ PairIdle /\ TrackerIdle /\ StrIdle /\ SharedIdle /\ WriterIdle

\* exp.accept(formatter) for one top-level expression, by both formatters.
\* A ValueError propagates to the caller and ends the pass.
Format(exp) ==
    /\ Len(exprs) < MaxCalls
    /\ failed = {}
    /\ LET call == Len(exprs) + 1
           rc == accept("canonical", exp, [ctx |-> ctxC, log |-> logC, call |-> call])
           ra == accept("anonymized", exp, [ctx |-> ctxA, log |-> logA, call |-> call])
       IN /\ exprs' = Append(exprs, exp)
          /\ ctxC' = rc.ctx
          /\ logC' = rc.log
          /\ outC' = IF rc.ok THEN Append(outC, rc.text) ELSE outC
          /\ ctxA' = ra.ctx
          /\ logA' = ra.log
          /\ outA' = IF ra.ok THEN Append(outA, ra.text) ELSE outA
          /\ failed' = (IF rc.ok THEN {} ELSE {"canonical"})
                            \cup (IF ra.ok THEN {} ELSE {"anonymized"})
    /\ UNCHANGED <<condVars, pairVars, trackerVars, strVars,
                   sharedVars, writerVars>>

Next == \E exp \in Exprs : Format(exp)

Spec == Init /\ [][Next]_vars

-----------------------------------------------------------------------------
(* Rendering one boolean condition with a fresh formatter *)

ColA == Column(None, None, <<"a">>)
ColB == Column(None, None, <<"b">>)
CallFA == FunctionCall(None, NameF, <<ColA>>)

CondLeaves == {ColA, ColB, CallFA}

Binary(operands) ==
    {FunctionCall(None, fn, <<p, q>>) :
        fn \in {BooleanAND, BooleanOR}, p \in operands, q \in operands}

CondLevel1 == Binary(CondLeaves)
CondLevel2 == Binary(CondLeaves \cup CondLevel1) \ CondLevel1
CondLevel3 ==
    {FunctionCall(None, fn, ps) :
        fn \in {BooleanAND, BooleanOR},
        ps \in {<<p, q>> : p \in CondLevel2, q \in CondLeaves}
               \cup {<<q, p>> : p \in CondLevel2, q \in CondLeaves}}

CondTrees == CondLevel1 \cup CondLevel2 \cup CondLevel3

Fresh == [ctx |-> {}, log |-> <<>>, call |-> 1]

CondInit ==
    /\ cond \in CondTrees /\ condOut = <<>>
    /\ FmtInit /\ PairIdle /\ TrackerIdle /\ StrIdle /\ SharedIdle /\ WriterIdle

\* cond.accept(ClickhouseExpressionFormatter())
FormatCondition ==
    /\ condOut = <<>>
    /\ condOut' = <<accept("canonical", cond, Fresh).text>>
    /\ UNCHANGED <<cond, fmtVars, pairVars, trackerVars, strVars,
                   sharedVars, writerVars>>

CondNext == FormatCondition

SpecCond == CondInit /\ [][CondNext]_vars

-----------------------------------------------------------------------------
(* Anonymizing two expressions that differ in the value of one Literal *)

ValuePool ==
    {BoolV(TRUE), BoolV(FALSE),
     StrV(<<"x", SQ>>), StrV(<<"$", "N">>), StrV(<<>>),
     NumV(-7), NumV(1), NumV(40),
     DateTime1, DateTime2, Date1, Date2}

\* The values of the kind of v other than v
SameKind(v) == {w \in ValuePool : w.t = v.t /\ w # v}

RECURSIVE Variants(_)
\* The expressions equal to e but for the value of exactly one Literal,
\* replaced by another value of its kind
Variants(e) ==
    LET InSeq(es) ==
            UNION {{[es EXCEPT ![i] = v] : v \in Variants(es[i])} : i \in DOMAIN es}
    IN CASE e.kind = "Literal" -> {Literal(e.alias, w) : w \in SameKind(e.value)}
         [] e.kind = "SubscriptableReference" ->
                {[e EXCEPT !.key = k] : k \in Variants(e.key)}
         [] e.kind = "FunctionCall" ->
                {[e EXCEPT !.parameters = ps] : ps \in InSeq(e.parameters)}
         [] e.kind = "CurriedFunctionCall" ->
                {[e EXCEPT !.internal_function = f] : f \in Variants(e.internal_function)}
                \cup {[e EXCEPT !.parameters = ps] : ps \in InSeq(e.parameters)}
         [] e.kind = "Lambda" ->
                {[e EXCEPT !.transformation = b] : b \in Variants(e.transformation)}
         [] OTHER -> {}

LiteralCalls ==
    {FunctionCall(al, NameF, <<Literal(al2, v), AliasedColumn>>) :
        al \in {None, AliasTC}, al2 \in {None, AliasTC}, v \in LiteralValues}

AnonPairs ==
    UNION {{<<e, v>> : v \in Variants(e)} : e \in Exprs \cup LiteralCalls}

AnonInit ==
    /\ pair \in AnonPairs
    /\ pairOut = <<>>
    /\ FmtInit /\ CondIdle /\ TrackerIdle /\ StrIdle /\ SharedIdle /\ WriterIdle

\* What the caller of one accept observes
Observed(r) == [ok |-> r.ok, text |-> r.text, ctx |-> r.ctx]

\* e.accept(ClickHouseExpressionFormatterAnonymized()) for both expressions,
\* each with a formatter of its own
AnonymizePair ==
    /\ pairOut = <<>>
    /\ pairOut' = <<Observed(accept("anonymized", pair[1], Fresh)),
                    Observed(accept("anonymized", pair[2], Fresh))>>
    /\ UNCHANGED <<pair, fmtVars, condVars, trackerVars, strVars,
                   sharedVars, writerVars>>

AnonNext == AnonymizePair

SpecAnon == AnonInit /\ [][AnonNext]_vars

-----------------------------------------------------------------------------
(* OffsetTracker.  __completed holds "None" for an offset never added (a   *)
(* gap), "False" for an in-progress offset and "True" for a completed one. *)

MaxOffset == 4

Epochs == {0, 3}

\* The offsets the calls are tried with: from below the epoch upwards
Offsets(e) == (e - 1)..(e + MaxOffset)

get_index(offset) == offset - epoch

\* __len__ counting every entry that is not completed
LenOfNotTrue == Cardinality({i \in DOMAIN completed : completed[i] # "True"})

\* list.count(False)
tracker_len == Cardinality({i \in DOMAIN completed : completed[i] = "False"})

\* list(tracker): __iter__ run to its end with no call in between
RECURSIVE IterFrom(_)
IterFrom(i) ==
    IF i > Len(completed) THEN <<>>
    ELSE (IF completed[i] = "False" THEN <<epoch + (i - 1)>> ELSE <<>>) \o IterFrom(i + 1)
tracker_iter == IterFrom(1)

\* value() with every offset that is not completed taken for incomplete
ValueOfFirstNotTrue ==
    IF \E i \in DOMAIN completed : completed[i] # "True"
    THEN epoch + (CHOOSE i \in DOMAIN completed :
                     /\ completed[i] # "True"
                     /\ \A j \in 1..(i - 1) : completed[j] = "True") - 1
    ELSE epoch + Len(completed)

\* value() falling back to the epoch when no offset is in progress
ValueResetToEpoch ==
    IF \E i \in DOMAIN completed : completed[i] = "False"
    THEN epoch + (CHOOSE i \in DOMAIN completed :
                     /\ completed[i] = "False"
                     /\ \A j \in 1..(i - 1) : completed[j] # "False") - 1
    ELSE epoch

\* value(): list.index(False) is the 0-based index of the first False
value ==
    IF \E i \in DOMAIN completed : completed[i] = "False"
    THEN epoch + (CHOOSE i \in DOMAIN completed :
                     /\ completed[i] = "False"
                     /\ \A j \in 1..(i - 1) : completed[j] # "False") - 1
    ELSE epoch + Len(completed)

TrackerInit ==
    /\ epoch \in Epochs
    /\ completed = <<>>
    /\ added = {} /\ removed = {}
    /\ lastCall = <<>> /\ iterator = <<>>
    /\ FmtInit /\ CondIdle /\ PairIdle /\ StrIdle /\ SharedIdle /\ WriterIdle

Called(op, offset, result) == [op |-> op, offset |-> offset, result |-> result]

\* The list after add: None for every skipped index, then False
Appended(index) ==
    completed \o [i \in 1..(index - Len(completed)) |-> "None"] \o <<"False">>

\* The suspended generator after the list changed under it (history)
Disturbed ==
    IF iterator = <<>> THEN iterator ELSE [iterator EXCEPT !.clean = FALSE]

\* add without the check of the index
add_unordered(offset) ==
    /\ completed' = Appended(get_index(offset))
    /\ added' = added \cup {offset}
    /\ lastCall' = Called("add", offset, "ok")
    /\ iterator' = Disturbed
    /\ UNCHANGED <<epoch, removed, fmtVars, condVars, pairVars, strVars,
                   sharedVars, writerVars>>

add(offset) ==
    LET index == get_index(offset)
    IN /\ IF ~(index >= Len(completed))
          THEN /\ lastCall' = Called("add", offset, "ValueError")
               /\ UNCHANGED <<completed, added, iterator>>
          ELSE /\ completed' = Appended(index)
               /\ added' = added \cup {offset}
               /\ lastCall' = Called("add", offset, "ok")
               /\ iterator' = Disturbed
       /\ UNCHANGED <<epoch, removed, fmtVars, condVars, pairVars, strVars,
                      sharedVars, writerVars>>

remove(offset) ==
    LET index == get_index(offset)
    IN /\ IF ~(index >= 0) \/ index > Len(completed)
          THEN /\ lastCall' = Called("remove", offset, "ValueError")
               /\ UNCHANGED <<completed, removed, iterator>>
          ELSE IF index = Len(completed)
          THEN \* self.__completed[index] is out of range
               /\ lastCall' = Called("remove", offset, "IndexError")
               /\ UNCHANGED <<completed, removed, iterator>>
          ELSE IF completed[index + 1] # "False"
          THEN /\ lastCall' = Called("remove", offset, "ValueError")
               /\ UNCHANGED <<completed, removed, iterator>>
          ELSE /\ completed' = [completed EXCEPT ![index + 1] = "True"]
               /\ removed' = removed \cup {offset}
               /\ lastCall' = Called("remove", offset, "ok")
               /\ iterator' = Disturbed
       /\ UNCHANGED <<epoch, added, fmtVars, condVars, pairVars, strVars,
                      sharedVars, writerVars>>

\* A call of value(): the state is left alone, the result is recorded
get_value ==
    /\ lastCall' = Called("value", value, "ok")
    /\ UNCHANGED <<epoch, completed, added, removed, iterator, fmtVars, condVars, pairVars, strVars,
                   sharedVars, writerVars>>

\* len(tracker): the state is left alone
get_len ==
    /\ lastCall' = Called("len", tracker_len, "ok")
    /\ UNCHANGED <<epoch, completed, added, removed, iterator, fmtVars, condVars,
                   pairVars, strVars, sharedVars, writerVars>>

\* iter(tracker): __iter__ is a generator function, so the call only makes
\* the generator; its loop has not looked at the list yet
iter_start ==
    /\ iterator' = [at |-> 0, out |-> <<>>, done |-> FALSE, clean |-> TRUE]
    /\ lastCall' = Called("iter", 0, "ok")
    /\ UNCHANGED <<epoch, completed, added, removed, fmtVars, condVars, pairVars,
                   strVars, sharedVars, writerVars>>

\* The 0-based indexes the loop of the generator has still to visit that
\* hold False, in the list as it is now
Pending == {i \in iterator.at..(Len(completed) - 1) : completed[i + 1] = "False"}

\* next(generator): the loop resumes at its index on the list as it is now
\* and runs to the next yield, or off the end of the list, which finishes
\* the generator for good
iter_next ==
    /\ iterator # <<>>
    /\ IF iterator.done \/ Pending = {}
       THEN /\ iterator' = [iterator EXCEPT !.done = TRUE]
            /\ lastCall' = Called("next", -1, "StopIteration")
       ELSE LET i == CHOOSE i \in Pending : \A j \in Pending : i <= j
            IN /\ iterator' = [iterator EXCEPT !.at = i + 1,
                                               !.out = Append(@, epoch + i)]
               /\ lastCall' = Called("next", epoch + i, "ok")
    /\ UNCHANGED <<epoch, completed, added, removed, fmtVars, condVars, pairVars,
                   strVars, sharedVars, writerVars>>

TrackerNext ==
    \/ \E offset \in Offsets(epoch) : add(offset)
    \/ \E offset \in Offsets(epoch) : remove(offset)
    \/ get_value
    \/ get_len

SpecTracker == TrackerInit /\ [][TrackerNext]_vars

\* The tracker with a generator of __iter__ advanced between the calls
IterNext ==
    \/ TrackerNext
    \/ iter_start
    \/ iter_next

SpecIter == TrackerInit /\ [][IterNext]_vars

-----------------------------------------------------------------------------
(* Vocabulary of the claims about the formatting pass *)

\* The aliases that nodes of the pass carry
Carried == (Aliases \cup {NameQ}) \ {None}

\* The two passes: formatter class, visit log, returned fragments, context
Passes ==
    {[fmt |-> "canonical", log |-> logC, out |-> outC, ctx |-> ctxC],
     [fmt |-> "anonymized", log |-> logA, out |-> outA, ctx |-> ctxA]}

\* Nesting depth of parentheses after the first k characters
Depth(text, k) ==
    Cardinality({i \in 1..k : text[i] = "("}) - Cardinality({i \in 1..k : text[i] = ")"})

\* text is "(" ... " AS <escaped alias>)" and its first parenthesis closes at
\* its last character
IsBinding(text, alias) ==
    LET tail == AS \o escape_alias(alias) \o <<")">>
    IN /\ Len(text) > Len(tail) + 1
       /\ text[1] = "("
       /\ SubSeq(text, Len(text) - Len(tail) + 1, Len(text)) = tail
       /\ \A k \in 1..(Len(text) - 1) : Depth(text, k) > 0

IsBare(text, alias) == text = escape_alias(alias)

\* The unescaped fully-qualified reference of a Column
Qualified(node) ==
    IF Falsy(node.table_name) THEN node.column_name
    ELSE node.table_name \o <<".">> \o node.column_name

\* The escaped reference of a Column
EscapedReference(node) ==
    IF Falsy(node.table_name) THEN escape_identifier(node.column_name)
    ELSE escape_identifier(node.table_name) \o <<".">> \o escape_alias(node.column_name)

\* The nodes whose alias is handed to bind by a formatter of class fmt
ReachesBind(fmt, node) ==
    /\ ~Falsy(node.alias)
    /\ CASE node.kind = "Literal" -> node.value.t = "null" \/ fmt = "canonical"
         [] node.kind = "Column" -> node.alias # Qualified(node)
         [] node.kind = "FunctionCall" -> node.function_name \notin {BooleanAND, BooleanOR}
         [] node.kind \in {"CurriedFunctionCall", "Lambda"} -> TRUE
         [] OTHER -> FALSE

\* What bind does to one visit: text unchanged without alias, the bare alias
\* when the alias was in the Context, a new registration and a binding
\* otherwise
ThroughBind(entry) ==
    LET al == entry.node.alias
    IN /\ Falsy(al) => entry.after = entry.before /\ ~IsBinding(entry.text, al)
       /\ (~Falsy(al) /\ al \in entry.before) =>
              IsBare(entry.text, al) /\ entry.after = entry.before
       /\ (~Falsy(al) /\ al \notin entry.before) =>
              IsBinding(entry.text, al) /\ entry.after = entry.before \cup {al}

\* The alias of the visit was dropped: not emitted, not registered
AliasDropped(entry) ==
    /\ entry.after = entry.before
    /\ ~IsBinding(entry.text, entry.node.alias)

-----------------------------------------------------------------------------
\* C1 (as stated): for every alias carried by more than one node of a pass,
\* exactly one of these nodes renders as (expr AS alias) and every other
\* one renders as the bare escaped alias.
C1_EveryCarrier ==
    \A p \in Passes : \A al \in Carried :
        LET carriers == {i \in DOMAIN p.log : p.log[i].node.alias = al}
        IN Cardinality(carriers) > 1 =>
              \E i \in carriers :
                  /\ IsBinding(p.log[i].text, al)
                  /\ \A j \in carriers \ {i} : IsBare(p.log[j].text, al)

\* C1 (amended): for every alias, among the nodes carrying it whose alias
\* reaches bind (every aliased node but an AND or OR FunctionCall, a
\* SubscriptableReference, a self-aliased Column and, in the anonymized
\* formatter, a non-null Literal), the first to return renders as
\* (expr AS alias) and every other one renders as the bare escaped alias.
C1_SingleBinding ==
    \A p \in Passes : \A al \in Carried :
        LET carriers == {i \in DOMAIN p.log :
                            p.log[i].node.alias = al /\ ReachesBind(p.fmt, p.log[i].node)}
        IN \A i \in carriers :
              IF \A j \in carriers : i <= j
              THEN IsBinding(p.log[i].text, al)
              ELSE IsBare(p.log[i].text, al) /\ ~IsBinding(p.log[i].text, al)

\* C1 witness: an alias bound once and referred to twice afterwards, in two
\* top-level calls
C1_Witness ==
    \E i, j, k \in DOMAIN logC :
        /\ i < j /\ j < k
        /\ logC[i].node.alias = AliasTC /\ ReachesBind("canonical", logC[i].node)
        /\ logC[j].node.alias = AliasTC /\ ReachesBind("canonical", logC[j].node)
        /\ logC[k].node.alias = AliasTC /\ ReachesBind("canonical", logC[k].node)
        /\ logC[i].call # logC[k].call
        /\ IsBinding(logC[i].text, AliasTC)
        /\ IsBare(logC[j].text, AliasTC)
        /\ IsBare(logC[k].text, AliasTC)

\* The text returned to the caller by the first n top-level calls
Emitted(p, n) ==
    Concat(SubSeq(p.out, 1, IF n < Len(p.out) THEN n ELSE Len(p.out)))

\* C2: whenever a visit returns only the bare alias because the alias is in
\* the Context, the binding (text AS alias) of that alias is part of the
\* text the pass has returned to its caller up to and including that call.
C2_BindingEmittedBeforeReference ==
    \A p \in Passes : \A i \in DOMAIN p.log :
        p.log[i].via = "ref" =>
            \E j \in 1..(i - 1) :
                /\ p.log[j].via = "bind"
                /\ p.log[j].node.alias = p.log[i].node.alias
                /\ Occurs(p.log[j].text, Emitted(p, p.log[i].call))

\* C3 (as stated): a FunctionCall with an alias not yet in the Context is
\* bound and registered unless it is an AND, whose alias is dropped.
C3_AllButAndBind ==
    \A p \in Passes : \A i \in DOMAIN p.log :
        LET entry == p.log[i]
        IN (/\ entry.node.kind = "FunctionCall"
            /\ ~Falsy(entry.node.alias)
            /\ entry.node.alias \notin entry.before) =>
              IF entry.node.function_name = BooleanAND
              THEN AliasDropped(entry)
              ELSE ThroughBind(entry)

\* C3 (amended): a FunctionCall with an alias not yet in the Context is
\* bound as (text AS alias) and registered when it is an array constructor
\* or an ordinary function; the alias of an AND and of an OR node is
\* dropped: never emitted, never registered.
C3_CallsBindConditionsDrop ==
    \A p \in Passes : \A i \in DOMAIN p.log :
        LET entry == p.log[i]
        IN (/\ entry.node.kind = "FunctionCall"
            /\ ~Falsy(entry.node.alias)
            /\ entry.node.alias \notin entry.before) =>
              IF entry.node.function_name \in {BooleanAND, BooleanOR}
              THEN AliasDropped(entry)
              ELSE ThroughBind(entry)

\* C3 witness: an aliased array constructor was bound and an aliased OR and
\* an aliased AND were rendered with their alias not in the Context
C3_Witness ==
    \E i, j \in DOMAIN logC :
        /\ logC[i].node.kind = "FunctionCall" /\ logC[j].node.kind = "FunctionCall"
        /\ logC[i].node.function_name = ArrayName
        /\ logC[i].node.alias = AliasTC /\ AliasTC \notin logC[i].before
        /\ IsBinding(logC[i].text, AliasTC)
        /\ logC[j].node.function_name \in {BooleanOR, BooleanAND}
        /\ logC[j].node.alias = AliasTC /\ AliasTC \notin logC[j].before

\* C4 (as stated): a null Literal renders as exactly NULL whatever its
\* alias and whatever the Context holds, and leaves the Context unchanged.
C4_NullIgnoresAlias ==
    \A p \in Passes : \A i \in DOMAIN p.log :
        LET entry == p.log[i]
        IN (entry.node.kind = "Literal" /\ entry.node.value.t = "null") =>
              entry.text = NULL /\ entry.after = entry.before

\* C4 (amended): under both strategies a null Literal renders as NULL
\* passed through bind: exactly NULL without an alias, (NULL AS alias) with
\* the alias registered when the alias is not in the Context, the bare
\* alias when it is.
C4_NullThroughBind ==
    \A p \in Passes : \A i \in DOMAIN p.log :
        LET entry == p.log[i]
            al == entry.node.alias
        IN (entry.node.kind = "Literal" /\ entry.node.value.t = "null") =>
              /\ ThroughBind(entry)
              /\ Falsy(al) => entry.text = NULL
              /\ (~Falsy(al) /\ al \notin entry.before) =>
                     entry.text = <<"(">> \o NULL \o AS \o escape_alias(al) \o <<")">>

\* C4 witness: both formatters rendered an aliased null Literal as a
\* binding and a null Literal without alias as NULL
C4_Witness ==
    \A p \in Passes :
        \E i, j \in DOMAIN p.log :
            /\ p.log[i].node = Literal(AliasTC, NullV)
            /\ IsBinding(p.log[i].text, AliasTC)
            /\ p.log[j].node = Literal(None, NullV)
            /\ p.log[j].text = NULL

NonNullLiteral(node) == node.kind = "Literal" /\ node.value.t # "null"

\* C5 (as stated): under both formatters the text of every non-null Literal
\* is passed through bind, and both leave the same aliases in the Context.
C5_BothStrategiesBind ==
    /\ \A p \in Passes : \A i \in DOMAIN p.log :
          NonNullLiteral(p.log[i].node) => ThroughBind(p.log[i])
    /\ ctxC = ctxA

\* C5 (amended): under the canonical formatter the text of every non-null
\* Literal kind is passed through bind; under the anonymized formatter the
\* hook returns the category token alone, the alias is neither emitted nor
\* registered, and so the anonymized Context holds a subset of the aliases
\* of the canonical Context after the same trees.
C5_CanonicalBindsAnonymizedDrops ==
    /\ \A i \in DOMAIN logC :
          NonNullLiteral(logC[i].node) => ThroughBind(logC[i])
    /\ \A i \in DOMAIN logA :
          NonNullLiteral(logA[i].node) =>
              /\ logA[i].after = logA[i].before
              /\ logA[i].text \in {<<"$", "S">>, <<"$", "N">>, <<"$", "B">>,
                                    <<"$", "D", "T">>, <<"$", "D">>}
    /\ ctxA \subseteq ctxC

\* C5 witness: the canonical formatter bound an aliased non-null literal
\* and rendered a later one as the bare alias, and the anonymized Context
\* lacks the alias
C5_Witness ==
    /\ \E i, j \in DOMAIN logC :
          /\ i < j
          /\ NonNullLiteral(logC[i].node) /\ NonNullLiteral(logC[j].node)
          /\ logC[i].node.alias = AliasTC /\ logC[j].node.alias = AliasTC
          /\ IsBinding(logC[i].text, AliasTC)
          /\ IsBare(logC[j].text, AliasTC)
    /\ AliasTC \in ctxC \ ctxA

\* C6: a Column whose alias equals its unescaped fully-qualified reference
\* renders as its escaped reference in every Context state, without an AS
\* clause and without registering the alias; a Column with another alias
\* goes through bind.
C6_SelfAliasSuppressed ==
    \A p \in Passes : \A i \in DOMAIN p.log :
        LET entry == p.log[i]
        IN entry.node.kind = "Column" =>
              IF entry.node.alias = Qualified(entry.node)
              THEN /\ entry.text = EscapedReference(entry.node)
                   /\ entry.after = entry.before
              ELSE /\ ThroughBind(entry)
                   /\ entry.node.alias \notin entry.before =>
                          Occurs(EscapedReference(entry.node), entry.text)

\* C6 witness: a table-qualified self-aliased Column rendered as t.c, not
\* as the quoted bare alias, while its alias was in the Context, and a
\* self-aliased Column with a quoted name left its alias out of the Context
C6_Witness ==
    \E i, j \in DOMAIN logC :
        /\ logC[i].node = Column(AliasTC, NameT, NameC)
        /\ AliasTC \in logC[i].before
        /\ logC[i].text = <<"t", ".", "c">>
        /\ ~IsBare(logC[i].text, AliasTC)
        /\ logC[j].node = Column(NameQ, None, NameQ)
        /\ logC[j].text = <<BQ, "c", "-", BQ>>
        /\ NameQ \notin ctxC

-----------------------------------------------------------------------------
(* Claims about boolean conditions (SpecCond) *)

IsOp(e, fn) == e.kind = "FunctionCall" /\ e.function_name = fn

RECURSIVE LeavesOf(_, _)
\* The leaves of the maximal tree of fn nodes rooted at e, depth-first, left
\* before right: a child that is not an fn node is one leaf.
LeavesOf(e, fn) ==
    IF IsOp(e, fn)
    THEN LeavesOf(e.parameters[1], fn) \o LeavesOf(e.parameters[2], fn)
    ELSE <<e>>

\* The render of every leaf, each as one operand
LeafTexts(e, fn) ==
    LET leaves == LeavesOf(e, fn)
    IN [i \in 1..Len(leaves) |-> accept("canonical", leaves[i], Fresh).text]

\* The number of parentheses in a text
Parens(text) == Cardinality({i \in 1..Len(text) : text[i] \in {"(", ")"}})

\* C7: a tree of binary AND nodes renders as the renders of its leaves,
\* depth-first and left before right, joined by " AND ", with no
\* parenthesis added by the AND level; a leaf that is an OR or a
\* non-boolean node is one operand, rendered once.
C7_AndFlattened ==
    (condOut # <<>> /\ IsOp(cond, BooleanAND)) =>
        /\ condOut[1] = Join(AND_SEP, LeafTexts(cond, BooleanAND))
        /\ Parens(condOut[1]) = Parens(Concat(LeafTexts(cond, BooleanAND)))

\* The left-nested chain ((a AND b) AND f(a)) AND b
AndChain ==
    FunctionCall(None, BooleanAND,
        <<FunctionCall(None, BooleanAND,
            <<FunctionCall(None, BooleanAND, <<ColA, ColB>>), CallFA>>), ColB>>)

\* C7 witness: the left-nested chain of three AND nodes rendered as
\* a AND b AND f(a) AND b
C7_Witness ==
    /\ cond = AndChain
    /\ condOut = << <<"a">> \o AND_SEP \o <<"b">> \o AND_SEP \o <<"f", "(", "a", ")">>
                    \o AND_SEP \o <<"b">> >>

\* AND(OR(a, b), f(a)) and OR(OR(a, AND(a, b)), b)
AndOfOr ==
    FunctionCall(None, BooleanAND, <<FunctionCall(None, BooleanOR, <<ColA, ColB>>), CallFA>>)
OrOfAnd ==
    FunctionCall(None, BooleanOR,
        <<FunctionCall(None, BooleanOR,
            <<ColA, FunctionCall(None, BooleanAND, <<ColA, ColB>>)>>), ColB>>)

\* C8: an OR node renders as its flattened operands joined by " OR " in
\* exactly one pair of parentheses, nested ORs adding none, and an AND that
\* is an operand of an OR is one operand without parentheses of its own;
\* an OR that is an operand of an AND keeps its pair: AND(OR(a, b), f(a))
\* renders as (a OR b) AND f(a).
C8_OrWrappedOnce ==
    /\ (condOut # <<>> /\ IsOp(cond, BooleanOR)) =>
          /\ condOut[1] = <<"(">> \o Join(OR_SEP, LeafTexts(cond, BooleanOR)) \o <<")">>
          /\ Parens(condOut[1]) = Parens(Concat(LeafTexts(cond, BooleanOR))) + 2
          /\ \A k \in 1..(Len(condOut[1]) - 1) : Depth(condOut[1], k) > 0
    /\ (condOut # <<>> /\ cond = AndOfOr) =>
          condOut[1] = <<"(", "a">> \o OR_SEP \o <<"b", ")">> \o AND_SEP
                       \o <<"f", "(", "a", ")">>

\* C8 witness: OR(OR(a, AND(a, b)), b) rendered as (a OR a AND b OR b)
C8_Witness ==
    /\ cond = OrOfAnd
    /\ condOut = << <<"(", "a">> \o OR_SEP \o <<"a">> \o AND_SEP \o <<"b">>
                    \o OR_SEP \o <<"b", ")">> >>

-----------------------------------------------------------------------------
(* Claims about the anonymized formatter (SpecAnon) *)

\* C9: two expressions that differ only in the value of one Literal are
\* anonymized, each from a fresh Context, to the same output with the same
\* final Context.
C9_AnonymizedIndependent ==
    pairOut # <<>> => pairOut[1] = pairOut[2]

\* C9 witness: two expressions that the canonical formatter renders
\* differently were anonymized to a text holding a category token, with an
\* alias registered
C9_Witness ==
    /\ pairOut # <<>>
    /\ pair[1] # pair[2]
    /\ accept("canonical", pair[1], Fresh).text # accept("canonical", pair[2], Fresh).text
    /\ pairOut[1].ok
    /\ Occurs(<<"$", "S">>, pairOut[1].text)
    /\ pairOut[1].ctx # {}

-----------------------------------------------------------------------------
(* Claims about the OffsetTracker (SpecTracker) *)

InFlight == added \ removed

Least(offsets) == CHOOSE o \in offsets : \A q \in offsets : o <= q
Greatest(offsets) == CHOOSE o \in offsets : \A q \in offsets : q <= o

\* The offsets between the epoch and the highest added offset never added
Gaps == {o \in epoch..(epoch + Len(completed) - 1) : o \notin added}

\* C10: value() is the earliest offset added and not yet removed, or, with
\* no offset in flight, one past the highest added offset, the epoch when
\* nothing was added; it is never an offset skipped between two adds.
C10_ValueIsCommittable ==
    /\ value = (IF InFlight # {} THEN Least(InFlight)
                ELSE IF added # {} THEN Greatest(added) + 1
                ELSE epoch)
    /\ value \notin Gaps
    /\ (lastCall # <<>> /\ lastCall.op = "value") => lastCall.offset = value

\* C10 witness: value() returned an in-flight offset above a gap and above
\* a completed offset
C10_Witness ==
    /\ lastCall # <<>> /\ lastCall.op = "value"
    /\ lastCall.offset \in InFlight
    /\ \E g \in Gaps : g < lastCall.offset
    /\ \E r \in removed : r < lastCall.offset
    /\ \E o \in InFlight : o > lastCall.offset

-----------------------------------------------------------------------------
(* Rendering one string literal, at every place of a tree, with a fresh    *)
(* canonical formatter                                                     *)

MaxStrLen == 3

Alphabet == {"a", SQ, BSL}

Strings == UNION {[1..n -> Alphabet] : n \in 0..MaxStrLen}

StringTrees ==
    UNION {{Literal(None, StrV(v)),
            Literal(AliasTC, StrV(v)),
            FunctionCall(None, NameF, <<PlainColumn, Literal(None, StrV(v))>>),
            FunctionCall(None, BooleanOR, <<AliasedBoolean, Literal(NameC, StrV(v))>>),
            FunctionCall(None, NameF, <<AliasedColumn, Literal(AliasTC, StrV(v))>>),
            SubscriptableReference(None, AliasedColumn, Literal(None, StrV(v)))} :
           v \in Strings}

StringInit ==
    /\ lit \in StringTrees /\ litOut = <<>>
    /\ FmtInit /\ CondIdle /\ PairIdle /\ TrackerIdle /\ SharedIdle /\ WriterIdle

FormatString ==
    /\ litOut = <<>>
    /\ LET r == accept("canonical", lit, Fresh)
       IN litOut' = <<[ok |-> r.ok, text |-> r.text, log |-> r.log]>>
    /\ UNCHANGED <<lit, fmtVars, condVars, pairVars, trackerVars, sharedVars,
                   writerVars>>

StringNext == FormatString

SpecString == StringInit /\ [][StringNext]_vars

\* The characters escape_string has to prefix
Special(c) == c \in {SQ, BSL}

\* Where the i-th character of str sits in the quoted literal
QuotedAt(str, i) == 1 + i + Cardinality({j \in 1..i : Special(str[j])})

\* text is str in single quotes, each backslash and single quote prefixed
\* by a backslash
QuotedAndPrefixed(text, str) ==
    /\ Len(text) = QuotedAt(str, Len(str)) + 1
    /\ text[1] = SQ /\ text[Len(text)] = SQ
    /\ \A i \in DOMAIN str :
          /\ text[QuotedAt(str, i)] = str[i]
          /\ Special(str[i]) => text[QuotedAt(str, i) - 1] = BSL

\* The inverse of escape_string: the quotes are dropped and a backslash
\* stands for the character after it
RECURSIVE UnescapeChars(_)
UnescapeChars(body) ==
    IF body = <<>> THEN <<>>
    ELSE IF body[1] = BSL /\ Len(body) > 1
    THEN <<body[2]>> \o UnescapeChars(SubSeq(body, 3, Len(body)))
    ELSE <<body[1]>> \o UnescapeChars(Tail(body))

unescape_string(text) == UnescapeChars(SubSeq(text, 2, Len(text) - 1))

\* C14: the canonical formatter renders a string literal, wherever it sits
\* (also as the key of a SubscriptableReference), as its value in single
\* quotes with every backslash and single quote prefixed by a backslash;
\* unescaping that text gives the value back, and it is part of the output
\* unless the literal was replaced by a reference to its alias.
C14_StringEscapedRoundTrip ==
    litOut # <<>> =>
        /\ litOut[1].ok
        /\ \E i \in DOMAIN litOut[1].log :
              litOut[1].log[i].node.kind = "Literal"
                  /\ litOut[1].log[i].node.value.t = "str"
        /\ \A i \in DOMAIN litOut[1].log :
              LET e == litOut[1].log[i]
              IN (e.node.kind = "Literal" /\ e.node.value.t = "str") =>
                    /\ QuotedAndPrefixed(e.inner, e.node.value.v)
                    /\ unescape_string(e.inner) = e.node.value.v
                    /\ e.via # "ref" => Occurs(e.inner, litOut[1].text)

\* C14 witness: the key of a SubscriptableReference holding a backslash
\* followed by a single quote was rendered
C14_Witness ==
    /\ litOut # <<>>
    /\ lit.kind = "SubscriptableReference"
    /\ lit.key.value.v = <<BSL, SQ, "a">>
    /\ Occurs(<<"[", SQ, BSL, BSL, BSL, SQ, "a", SQ, "]">>, litOut[1].text)

-----------------------------------------------------------------------------
(* Two formatting passes whose top-level calls interleave, constructed     *)
(* either with one ParsingContext each or with the same one                *)

MaxPassCalls == 2

PassIds == {1, 2}

\* Expressions of two queries that use the same alias
SharedExprs ==
    {AliasedColumn, AliasedNumber, PlainColumn,
     FunctionCall(None, NameF, <<AliasedColumn>>),
     FunctionCall(AliasTC, NameF, <<AliasedColumn>>)}

SharedInit ==
    /\ sharing \in BOOLEAN
    /\ passCtx = [p \in PassIds |-> {}]
    /\ passOut = [p \in PassIds |-> <<>>]
    /\ passLog = [p \in PassIds |-> <<>>]
    /\ FmtInit /\ CondIdle /\ PairIdle /\ TrackerIdle /\ StrIdle /\ WriterIdle

\* exp.accept(formatter) by the canonical formatter of pass p; a shared
\* ParsingContext is one object, so both passes see what it gained
RenderIn(p, exp) ==
    /\ Len(passOut[p]) < MaxPassCalls
    /\ LET r == accept("canonical", exp,
                       [ctx |-> passCtx[p], log |-> passLog[p],
                        call |-> Len(passOut[p]) + 1])
       IN /\ r.ok
          /\ passCtx' = [q \in PassIds |->
                            IF sharing \/ q = p THEN r.ctx ELSE passCtx[q]]
          /\ passOut' = [passOut EXCEPT ![p] = Append(@, r.text)]
          /\ passLog' = [passLog EXCEPT ![p] = r.log]
    /\ UNCHANGED <<sharing, fmtVars, condVars, pairVars, trackerVars, strVars,
                   writerVars>>

SharedNext == \E p \in PassIds : \E exp \in SharedExprs : RenderIn(p, exp)

SpecShared == SharedInit /\ [][SharedNext]_vars

\* Pass p as the record the claim vocabulary reads
PassOf(p) ==
    [fmt |-> "canonical", log |-> passLog[p], out |-> passOut[p], ctx |-> passCtx[p]]

\* The binding of alias is part of the text pass p has got back
BindingEmitted(p, alias) ==
    \E j \in DOMAIN passLog[p] :
        /\ passLog[p][j].via = "bind"
        /\ passLog[p][j].node.alias = alias
        /\ Occurs(passLog[p][j].text, Concat(passOut[p]))

\* Entry i of pass p is an occurrence of an alias that pass p itself had not
\* registered before
FirstOwnOccurrence(p, i) ==
    /\ passLog[p][i].via # "skip"
    /\ ~Falsy(passLog[p][i].node.alias)
    /\ \A j \in 1..(i - 1) :
          ~(passLog[p][j].via = "bind"
              /\ passLog[p][j].node.alias = passLog[p][i].node.alias)

\* C16: on a shared Context, a pass that renders its occurrence of an alias
\* after the other pass registered it gets only the bare alias, and the
\* binding of that alias is in the output of the other pass and not in its
\* own; with one Context per pass no pass holds a reference to an alias
\* whose binding is missing from its own output.
C16_SharedContextHazard ==
    \A p \in PassIds : \A i \in DOMAIN passLog[p] :
        LET e == passLog[p][i]
            other == CHOOSE q \in PassIds : q # p
        IN /\ (sharing /\ FirstOwnOccurrence(p, i) /\ e.node.alias \in e.before) =>
                /\ IsBare(e.text, e.node.alias)
                /\ BindingEmitted(other, e.node.alias)
                /\ ~BindingEmitted(p, e.node.alias)
           /\ (~sharing /\ e.via = "ref") => BindingEmitted(p, e.node.alias)

-----------------------------------------------------------------------------
(* The row writer: one row of values from one processed event              *)

MaxKeys == 2
MaxColumns == 2

\* Values of an event: None, a number, and arrays of three lengths
NoneV == [t |-> "none"]
IntV(n) == [t |-> "int", v |-> n]
ListV(items) == [t |-> "list", v |-> items]

ColumnNames == {<<"i">>, <<"a", ".", "x">>, <<"a", ".", "y">>, <<"b", ".", "x">>}

\* '.' in colname
HasDot(colname) == \E i \in DOMAIN colname : colname[i] = "."

\* colname.split('.', 1)[0] + '.'
PrefixOf(colname) ==
    SubSeq(colname, 1, CHOOSE i \in DOMAIN colname :
                          colname[i] = "." /\ \A j \in 1..(i - 1) : colname[j] # ".")

\* key.startswith(prefix)
StartsWith(key, prefix) ==
    Len(key) >= Len(prefix) /\ SubSeq(key, 1, Len(prefix)) = prefix

\* A nested column holds an array or null, a plain column a number or null
ValuesOf(key) ==
    IF HasDot(key)
    THEN {NoneV, ListV(<<>>), ListV(<<IntV(5)>>), ListV(<<IntV(5), IntV(6)>>)}
    ELSE {NoneV, IntV(7)}

\* Events as the ordered <<key, value>> pairs that event.keys() walks
RECURSIVE EventsOf(_)
EventsOf(n) ==
    IF n = 0 THEN {<<>>}
    ELSE EventsOf(n - 1) \cup
         UNION {{Append(ev, <<key, v>>) : v \in ValuesOf(key)} :
                ev \in {e \in EventsOf(n - 1) : Len(e) = n - 1},
                key \in ColumnNames}

KeysOf(ev) == {ev[i][1] : i \in DOMAIN ev}

Events == {ev \in EventsOf(MaxKeys) : Cardinality(KeysOf(ev)) = Len(ev)}

ColumnLists == UNION {[1..n -> ColumnNames] : n \in 1..MaxColumns}

\* event.get(colname, None)
event_get(ev, colname) ==
    IF colname \in KeysOf(ev)
    THEN ev[CHOOSE i \in DOMAIN ev : ev[i][1] = colname][2]
    ELSE NoneV

\* [None] * n
Nulls(n) == ListV([i \in 1..n |-> NoneV])

\* _create_missing_array: the first key with the prefix decides, and len()
\* of a value that is no array raises TypeError
_create_missing_array(colname, ev) ==
    LET prefixed == {i \in DOMAIN ev : StartsWith(ev[i][1], PrefixOf(colname))}
    IN IF prefixed = {} THEN [ok |-> TRUE, value |-> ListV(<<>>)]
       ELSE LET first == CHOOSE i \in prefixed : \A j \in prefixed : i <= j
            IN IF ev[first][2].t = "list"
               THEN [ok |-> TRUE, value |-> Nulls(Len(ev[first][2].v))]
               ELSE [ok |-> FALSE, value |-> NoneV]

\* The value of one column
ColumnValue(ev, colname) ==
    IF event_get(ev, colname) = NoneV /\ HasDot(colname)
    THEN _create_missing_array(colname, ev)
    ELSE [ok |-> TRUE, value |-> event_get(ev, colname)]

RECURSIVE RowValues(_, _, _)
RowValues(ev, cols, values) ==
    IF cols = <<>> THEN [ok |-> TRUE, values |-> values]
    ELSE LET c == ColumnValue(ev, cols[1])
         IN IF ~c.ok THEN [ok |-> FALSE, values |-> <<>>]
            ELSE RowValues(ev, Tail(cols), Append(values, c.value))

WriterInit ==
    /\ event \in Events /\ columns \in ColumnLists /\ row = <<>>
    /\ FmtInit /\ CondIdle /\ PairIdle /\ TrackerIdle /\ StrIdle /\ SharedIdle

row_from_processed_event ==
    /\ row = <<>>
    /\ row' = <<RowValues(event, columns, <<>>)>>
    /\ UNCHANGED <<event, columns, fmtVars, condVars, pairVars, trackerVars,
                   strVars, sharedVars>>

WriterNext == row_from_processed_event

SpecWriter == WriterInit /\ [][WriterNext]_vars

\* The keys of the event other than colname that share its prefix
Siblings(ev, colname) ==
    {key \in KeysOf(ev) : key # colname /\ StartsWith(key, PrefixOf(colname))}

\* C17: the row has one value per requested column, in column order; a
\* column with a dot in its name that is absent from the event or null in
\* it gets as many nulls as a sibling key of the event has elements, or the
\* empty sequence when the event has no sibling; the call does not fail.
C17_MissingNestedField ==
    row # <<>> =>
        /\ row[1].ok
        /\ Len(row[1].values) = Len(columns)
        /\ \A i \in DOMAIN columns :
              LET c == columns[i]
                  v == row[1].values[i]
              IN IF HasDot(c) /\ event_get(event, c) = NoneV
                 THEN IF Siblings(event, c) = {} THEN v = ListV(<<>>)
                      ELSE \E key \in Siblings(event, c) :
                              /\ event_get(event, key).t = "list"
                              /\ v = Nulls(Len(event_get(event, key).v))
                 ELSE v = event_get(event, c)

\* The last call was op and lastCall' records it
Did(op) == lastCall' # <<>> /\ lastCall'.op = op

\* What a caller can observe of the tracker
TrackerView == <<epoch, completed, value, tracker_len, tracker_iter>>

\* C11: add(o) succeeds exactly when o is at or above the epoch and greater
\* than every offset added before; any other add raises ValueError and
\* leaves the state, value(), len and iteration unchanged.
C11_AddStrictlyIncreasing ==
    [][Did("add") =>
          LET o == lastCall'.offset
              inOrder == o >= epoch /\ \A a \in added : o > a
          IN /\ lastCall'.result = (IF inOrder THEN "ok" ELSE "ValueError")
             /\ inOrder => added' = added \cup {o} /\ o \in InFlight'
             /\ ~inOrder => TrackerView' = TrackerView /\ added' = added]_vars

\* C11 witness: an add of an offset inside an earlier gap raised ValueError
C11_Witness ==
    /\ lastCall # <<>> /\ lastCall.op = "add"
    /\ lastCall.result = "ValueError"
    /\ lastCall.offset \in Gaps
    /\ InFlight # {}

\* C12: remove(o) succeeds exactly when o was added and not yet removed and
\* then completes exactly o; the remove of any other offset raises
\* ValueError and leaves the state unchanged.
C12_RemoveExactlyOnce ==
    [][Did("remove") =>
          LET o == lastCall'.offset
          IN /\ lastCall'.result = (IF o \in InFlight THEN "ok" ELSE "ValueError")
             /\ o \in InFlight => removed' = removed \cup {o} /\ InFlight' = InFlight \ {o}
             /\ o \notin InFlight => TrackerView' = TrackerView /\ removed' = removed]_vars

\* C19: over any sequence of add and remove calls value() never decreases,
\* never exceeds an in-flight offset and is never below the epoch.
C19_ValueMonotone ==
    /\ [](value >= epoch /\ \A o \in InFlight : value <= o)
    /\ [][value' >= value]_vars

\* C19 witness: value() is above the epoch, below an in-flight offset, and
\* the last call failed
C19_Witness ==
    /\ value > epoch + 1
    /\ \E o \in InFlight : value < o
    /\ lastCall # <<>> /\ lastCall.result # "ok"

RECURSIVE Increasing(_)
Increasing(offsets) ==
    Len(offsets) < 2 \/ (offsets[1] < offsets[2] /\ Increasing(Tail(offsets)))

\* offsets is the beginning of all
IsPrefix(offsets, all) ==
    Len(offsets) <= Len(all) /\ SubSeq(all, 1, Len(offsets)) = offsets

\* C20: len(tracker) is the number of offsets added and not yet removed,
\* and iterating yields exactly those offsets in strictly increasing order:
\* list(tracker) in every state, and a generator advanced step by step as
\* long as no add or remove changed the list under it. Whatever happens
\* between its steps, a generator yields increasing offsets, each of them in
\* progress when it is yielded, and when it finishes it has yielded every
\* offset then in progress; gaps and completed offsets are never yielded or
\* counted.
C20_InFlightAccounting ==
    /\ [](/\ tracker_len = Cardinality(InFlight)
          /\ {tracker_iter[i] : i \in DOMAIN tracker_iter} = InFlight
          /\ Increasing(tracker_iter)
          /\ Len(tracker_iter) = Cardinality(InFlight)
          /\ (lastCall # <<>> /\ lastCall.op = "len") =>
                 lastCall.offset = Cardinality(InFlight)
          /\ iterator # <<>> =>
                 /\ Increasing(iterator.out)
                 /\ \A k \in DOMAIN iterator.out : iterator.out[k] \in added
                 /\ iterator.clean => IsPrefix(iterator.out, tracker_iter)
                 /\ (iterator.clean /\ iterator.done) => iterator.out = tracker_iter)
    /\ [][/\ (Did("next") /\ lastCall'.result = "ok") =>
               (lastCall'.offset \in InFlight /\ lastCall'.offset \notin Gaps)
          /\ (Did("next") /\ ~iterator.done /\ iterator'.done) =>
               InFlight \subseteq {iterator'.out[k] : k \in DOMAIN iterator'.out}]_vars

\* C20 witness: with a gap and a completed offset in the list, a generator
\* ran to its end undisturbed after yielding two offsets, and len() then
\* returned 2
C20_Witness ==
    /\ lastCall # <<>> /\ lastCall.op = "len" /\ lastCall.offset = 2
    /\ Gaps # {} /\ removed # {}
    /\ iterator # <<>> /\ iterator.done /\ iterator.clean
    /\ Len(iterator.out) = 2

\* The child expressions a visitor renders below a node
Children(node) ==
    IF node.kind = "SubscriptableReference" THEN <<node.column, node.key>>
    ELSE IF node.kind = "FunctionCall" THEN node.parameters
    ELSE IF node.kind = "CurriedFunctionCall"
    THEN <<node.internal_function>> \o node.parameters
    ELSE IF node.kind = "Lambda" THEN <<node.transformation>>
    ELSE <<>>

RECURSIVE HasUnrecognised(_)
HasUnrecognised(node) ==
    \/ node.kind = "Literal" /\ node.value.t = "other"
    \/ \E i \in DOMAIN Children(node) : HasUnrecognised(Children(node)[i])

\* C13: a top-level render of a tree holding a literal of no recognised kind,
\* wherever it sits, fails in both formatters: the call returns no fragment,
\* no text is produced for the literal, and the pass ends there.
C13_UnrecognisedAborts ==
    \A k \in DOMAIN exprs :
        HasUnrecognised(exprs[k]) =>
            /\ k = Len(exprs)
            /\ failed = {"canonical", "anonymized"}
            /\ Len(outC) = k - 1 /\ Len(outA) = k - 1
            /\ \A log \in {logC, logA} : \A i \in DOMAIN log :
                   log[i].call = k => ~HasUnrecognised(log[i].node)

\* C13 witness: the second call failed on a literal nested below a parent,
\* after a sibling had been rendered and had bound its alias in that call
C13_Witness ==
    /\ Len(exprs) = 2 /\ Len(outC) = 1
    /\ exprs[2].kind # "Literal" /\ HasUnrecognised(exprs[2])
    /\ "canonical" \in failed
    /\ \E i \in DOMAIN logC : logC[i].call = 2 /\ logC[i].via = "bind"

\* The entries of a pass that went through _alias
BindCalls(p) == {i \in DOMAIN p.log : p.log[i].via # "skip"}

\* C18: _alias with no alias returns the text and leaves the Context alone;
\* with an alias in the Context it returns only the escaped alias and leaves
\* the Context alone; with an alias not in the Context it adds exactly that
\* alias and returns (text AS <escaped alias>). The alias set of a Context
\* only grows, and it holds an alias exactly when an earlier _alias call of
\* the pass returned a binding of that alias.
C18_BindTransition ==
    /\ [](\A p \in Passes : \A i \in BindCalls(p) :
             LET e == p.log[i]
                 alias == e.node.alias
             IN IF Falsy(alias)
                THEN e.text = e.inner /\ e.after = e.before
                ELSE IF alias \in e.before
                THEN e.text = escape_alias(alias) /\ e.after = e.before
                ELSE /\ e.after = e.before \cup {alias}
                     /\ e.text = <<"(">> \o e.inner \o AS \o escape_alias(alias)
                                       \o <<")">>)
    /\ [](\A p \in Passes : \A alias \in Carried :
             alias \in p.ctx <=>
                 \E i \in BindCalls(p) :
                     p.log[i].node.alias = alias /\ IsBinding(p.log[i].text, alias))
    /\ [][ctxC \subseteq ctxC' /\ ctxA \subseteq ctxA']_vars

\* C18 witness: one pass made an _alias call of each of the three cases, the
\* back-reference with an alias that needs quoting
C18_Witness ==
    \E i, j, k \in DOMAIN logC :
        /\ logC[i].via = "none" /\ logC[j].via = "bind" /\ logC[k].via = "ref"
        /\ logC[k].node.alias = AliasTC /\ j < k
        /\ ctxC = {NameC, AliasTC}

====
